---- MODULE Spec2Model ----
(***************************************************************************)
(* GlGeomCone: the resolution triple, the VboEboLoaded flag, the mesh that *)
(* CalcVboAndEbo writes into the caller's vertex and element buffers, and  *)
(* the calls that the render operations pass to GlGeomBase.                *)
(*                                                                         *)
(* Two specifications share the variables.                                 *)
(*   Spec      the life cycle of one object: construction, Remesh,         *)
(*             InitializeAttribLocations, Render, RenderBase, RenderSide.  *)
(*   SpecFill  CalcVboAndEbo applied to an object of any small resolution. *)
(*             The buffers belong to the caller, not to the object, so the *)
(*             fill is a function of the triple and of its arguments.      *)
(***************************************************************************)
EXTENDS Integers, Sequences, FiniteSets

VARIABLES numSlices, numStacks, numRings, VboEboLoaded,
          calls, lastOp, track, vbo, ebo, fillArgs, fillStatus

vars == <<numSlices, numStacks, numRings, VboEboLoaded,
          calls, lastOp, track, vbo, ebo, fillArgs, fillStatus>>

objVars == <<numSlices, numStacks, numRings, VboEboLoaded, calls, track>>
\* lastOp names the member function called last; calls are the calls it
\* passed on to GlGeomBase, in order.
bufVars == <<vbo, ebo, fillArgs, fillStatus>>

(* ---------------------------- bounds ---------------------------------- *)

\* The small integers passed to the constructor and to Remesh run from
\* -MaxBelow to MaxArg.
MaxBelow == 1
MaxArg == 4
\* One argument above the upper clamp limit (clamps to 255).
AboveRange == 256
\* Resolutions of the objects on which CalcVboAndEbo is run.
MaxRes == 4

ArgValues == ((-MaxBelow)..MaxArg) \cup {AboveRange}
ResValues == (-MaxBelow)..MaxRes

(* ----------------------- clamp limits (Remesh) ------------------------ *)

MinSlices == 3
MinStacks == 1
MinRings == 1
MaxCount == 255

\* MathMisc.h is not among the sources: clamp x into [lo, hi].
ClampRange(x, lo, hi) == IF x < lo THEN lo ELSE IF x > hi THEN hi ELSE x

(* -------------------------- count queries ----------------------------- *)

GetNumElementsDisk == 3 * (2 * numRings - 1) * numSlices
GetNumVerticesDisk == 1 + numRings * numSlices
GetNumElementsSide == 3 * (2 * numStacks - 1) * numSlices
\* Variant: the seam column is left out of the count.
GetNumVerticesSideTexCoords_m == numSlices + numStacks * numSlices
GetNumVerticesSideTexCoords == numSlices + numStacks * (numSlices + 1)
GetNumVerticesSideNoTexCoords == numSlices + numStacks * numSlices
GetNumElements == GetNumElementsDisk + GetNumElementsSide
GetNumVerticesTexCoords == GetNumVerticesDisk + GetNumVerticesSideTexCoords
GetNumVerticesNoTexCoords == GetNumVerticesDisk + GetNumVerticesSideNoTexCoords

(* ------------------------- life cycle --------------------------------- *)

\* track follows the sequence Remesh(a); InitializeAttribLocations; Remesh(a):
\* ph = 1 after a Remesh(a), 2 after an InitializeAttribLocations that
\* directly follows it, 3 after a Remesh with the same a directly after that.
NoTrack == [ph |-> 0, a |-> <<0, 0, 0>>]

TrackRemesh(a) ==
    IF track.ph = 2 /\ track.a = a THEN [ph |-> 3, a |-> a]
    ELSE [ph |-> 1, a |-> a]

TrackInit ==
    IF track.ph \in {1, 3} THEN [ph |-> 2, a |-> track.a] ELSE NoTrack

NoFillArgs ==
    [vertPosOffset |-> 0, vertNormalOffset |-> -1,
     vertTexCoordsOffset |-> -1, stride |-> 0]

\* GlGeomCone(slices, stacks, rings) stores its arguments as they are.
Constructor(slices, stacks, rings) ==
    /\ numSlices = slices
    /\ numStacks = stacks
    /\ numRings = rings
    /\ VboEboLoaded = FALSE
    /\ calls = <<>>
    /\ lastOp = "none"
    /\ track = NoTrack
    /\ vbo = <<>>
    /\ ebo = <<>>
    /\ fillArgs = NoFillArgs
    /\ fillStatus = "none"

Init == \E slices \in ArgValues, stacks \in ArgValues, rings \in ArgValues :
            Constructor(slices, stacks, rings)

Remesh(slices, stacks, rings) ==
    /\ fillStatus # "trapped"
    /\ IF slices = numSlices /\ stacks = numStacks /\ rings = numRings
       THEN UNCHANGED <<numSlices, numStacks, numRings, VboEboLoaded>>
       ELSE /\ numSlices' = ClampRange(slices, MinSlices, MaxCount)
            /\ numStacks' = ClampRange(stacks, MinStacks, MaxCount)
            /\ numRings' = ClampRange(rings, MinRings, MaxCount)
            /\ VboEboLoaded' = FALSE
    /\ calls' = <<>>
    /\ lastOp' = "Remesh"
    /\ track' = TrackRemesh(<<slices, stacks, rings>>)
    /\ UNCHANGED bufVars

\* A call handed to GlGeomBase: its name, element count and element offset.
BaseCall(fn, count, offset) == [fn |-> fn, count |-> count, offset |-> offset]

\* GlGeomCone::InitializeAttribLocations: the base class call, then the flag.
InitializeAttribLocationsEffect ==
    [calls |-> <<BaseCall("GlGeomBase::InitializeAttribLocations", 0, 0)>>,
     loaded |-> TRUE]

InitializeAttribLocations ==
    /\ fillStatus # "trapped"
    /\ calls' = InitializeAttribLocationsEffect.calls
    /\ VboEboLoaded' = InitializeAttribLocationsEffect.loaded
    /\ lastOp' = "InitializeAttribLocations"
    /\ track' = TrackInit
    /\ UNCHANGED <<numSlices, numStacks, numRings>>
    /\ UNCHANGED bufVars

\* GlGeomBase.cpp is not among the sources: the reload runs
\* InitializeAttribLocations again with the locations stored before.
ReInitializeAttribLocations ==
    [calls |-> <<BaseCall("ReInitializeAttribLocations", 0, 0)>>
                  \o InitializeAttribLocationsEffect.calls,
     loaded |-> InitializeAttribLocationsEffect.loaded]

\* Variant: the reload is never run.
PreRender_m ==
    [calls |-> <<BaseCall("GlGeomBase::PreRender", 0, 0)>>,
     loaded |-> VboEboLoaded]

PreRender ==
    LET base == <<BaseCall("GlGeomBase::PreRender", 0, 0)>>
    IN  IF ~VboEboLoaded
        THEN [calls |-> base \o ReInitializeAttribLocations.calls,
              loaded |-> ReInitializeAttribLocations.loaded]
        ELSE [calls |-> base, loaded |-> VboEboLoaded]

\* GlGeomBase.cpp is not among the sources: the full element range is drawn.
GlGeomBaseRender == BaseCall("GlGeomBase::Render", GetNumElements, 0)

Render ==
    /\ fillStatus # "trapped"
    /\ lastOp' = "Render"
    /\ calls' = PreRender.calls \o <<GlGeomBaseRender>>
    /\ VboEboLoaded' = PreRender.loaded
    /\ track' = NoTrack
    /\ UNCHANGED <<numSlices, numStacks, numRings>>
    /\ UNCHANGED bufVars

\* GlGeomBase::RenderEBO(GL_TRIANGLES, GetNumElementsDisk(), 0)
RenderBaseDraw == BaseCall("RenderEBO", GetNumElementsDisk, 0)

RenderBase ==
    /\ fillStatus # "trapped"
    /\ lastOp' = "RenderBase"
    /\ calls' = PreRender.calls \o <<RenderBaseDraw>>
    /\ VboEboLoaded' = PreRender.loaded
    /\ track' = NoTrack
    /\ UNCHANGED <<numSlices, numStacks, numRings>>
    /\ UNCHANGED bufVars

\* GlGeomBase::RenderEBO(GL_TRIANGLES, GetNumElementsSide(), GetNumElementsDisk())
RenderSideDraw == BaseCall("RenderEBO", GetNumElementsSide, GetNumElementsDisk)

RenderSide ==
    /\ fillStatus # "trapped"
    /\ lastOp' = "RenderSide"
    /\ calls' = PreRender.calls \o <<RenderSideDraw>>
    /\ VboEboLoaded' = PreRender.loaded
    /\ track' = NoTrack
    /\ UNCHANGED <<numSlices, numStacks, numRings>>
    /\ UNCHANGED bufVars

Next ==
    \/ \E slices \in ArgValues, stacks \in ArgValues, rings \in ArgValues :
          Remesh(slices, stacks, rings)
    \/ InitializeAttribLocations
    \/ Render
    \/ RenderBase
    \/ RenderSide

Spec == Init /\ [][Next]_vars

(* ------------------------- CalcVboAndEbo ------------------------------ *)

\* The C++ remainder i % n for n # 0 (the sign follows the dividend).
CRem(i, n) ==
    LET d == IF n < 0 THEN -n ELSE n
    IN  IF i >= 0 THEN i % d ELSE -((-i) % d)

\* i % numSlices is undefined when numSlices = 0: the build either traps
\* ("trap") or goes on with some value; ub is the outcome.
UBOutcomes == {"trap", "zero"}
SliceRem(i, ub) == IF numSlices = 0 THEN 0 ELSE CRem(i, numSlices)

\* One vertex record written: rec is its index in the vertex buffer (the
\* float address divided by the stride), part/i/j say which vertex it is,
\* pos is the position (kind, angle index, numerator, denominator),
\* normal says whether a normal was written, tex is the texture coordinate
\* written (NoTex when none is): s = sNum/sDen and t = tNum/tDen for kind
\* "st"; for kind "disk" it is (0.5(1-x), 0.5(1-z)) of the base position at
\* angle index sNum of sDen and radius tNum/tDen.
TexCoord(kind, sNum, sDen, tNum, tDen) ==
    [kind |-> kind, sNum |-> sNum, sDen |-> sDen, tNum |-> tNum, tDen |-> tDen]

NoTex == TexCoord("none", 0, 0, 0, 0)

VertexWrite(rec, part, i, j, pos, args, tex) ==
    [rec |-> rec, part |-> part, i |-> i, j |-> j, pos |-> pos,
     normal |-> (args.vertNormalOffset >= 0),
     tex |-> IF args.vertTexCoordsOffset >= 0 THEN tex ELSE NoTex]

\* SetBaseVert(x, z, i, j, ...): x and z are the point at angle index
\* angle and radius j/numRings (the centre for j = 0).
SetBaseVert(angle, i, j, args) ==
    VertexWrite(i * numRings + j, "base", i, j,
                <<"base", angle, j, numRings>>, args,
                TexCoord("disk", angle, numSlices, j, numRings))

\* Variant: the extra slice is always looped over.
StopSlices_m(calcTexCoords) == numSlices
StopSlices(calcTexCoords) ==
    IF calcTexCoords THEN numSlices ELSE numSlices - 1

\* for (j = 1; j <= numRings; j++) SetBaseVert(...), only when i < numSlices
BaseRingVerts(i, args, ub) ==
    IF i < numSlices
    THEN [j \in 1..numRings |-> SetBaseVert(SliceRem(i, ub), i, j, args)]
    ELSE <<>>

\* Record index that sidePtr points to at the start of slice i.
SidePtr(i) == GetNumVerticesDisk + i * (numStacks + 1)

\* for (j = 0; j < numStacks; j++, sidePtr += stride)
SideStackVerts(i, args, ub) ==
    [jj \in 1..numStacks |->
        VertexWrite(SidePtr(i) + (jj - 1), "side", i, jj - 1,
                    <<"side", SliceRem(i, ub), jj - 1, numStacks>>, args,
                    TexCoord("st", i, numSlices, jj - 1, numStacks))]

\* The apex is written where the stack loop left sidePtr.
ApexVert(i, args) ==
    IF i < numSlices
    THEN <<VertexWrite(SidePtr(i) + (IF numStacks > 0 THEN numStacks ELSE 0),
                       "apex", i, numStacks, <<"apex", 0, 1, 1>>, args,
                       TexCoord("st", 1, 2, 1, 1))>>
    ELSE <<>>

RECURSIVE SliceLoop(_, _, _, _)
\* for (i = 0; i <= stopSlices; i++)
SliceLoop(i, stopSlices, args, ub) ==
    IF i > stopSlices THEN <<>>
    ELSE BaseRingVerts(i, args, ub) \o SideStackVerts(i, args, ub)
         \o ApexVert(i, args) \o SliceLoop(i + 1, stopSlices, args, ub)

\* The vertex writes of CalcVboAndEbo, in the order the code makes them.
CalcVbo(args, ub) ==
    <<SetBaseVert(0, 0, 0, args)>>
    \o SliceLoop(0, StopSlices(args.vertTexCoordsOffset >= 0), args, ub)

\* One element written through eboPtr: v is the vertex index, part the
\* region, i the slice, col the variable the index was computed from.
Elem(v, part, i, col) == [v |-> v, part |-> part, i |-> i, col |-> col]

RECURSIVE BaseQuads_m(_, _, _, _)
\* Variant: the ring loop runs to j < numRings.
BaseQuads_m(i, r, rightR, j) ==
    IF j >= numRings THEN <<>>
    ELSE << Elem(r + j, "disk", i, "r"),
            Elem(rightR + j, "disk", i, "rightR"),
            Elem(rightR + j + 1, "disk", i, "rightR"),
            Elem(r + j, "disk", i, "r"),
            Elem(rightR + j + 1, "disk", i, "rightR"),
            Elem(r + j + 1, "disk", i, "r") >>
         \o BaseQuads_m(i, r, rightR, j + 1)

RECURSIVE BaseQuads(_, _, _, _)
\* for (j = 0; j < numRings - 1; j++)
BaseQuads(i, r, rightR, j) ==
    IF j >= numRings - 1 THEN <<>>
    ELSE << Elem(r + j, "disk", i, "r"),
            Elem(rightR + j, "disk", i, "rightR"),
            Elem(rightR + j + 1, "disk", i, "rightR"),
            Elem(r + j, "disk", i, "r"),
            Elem(rightR + j + 1, "disk", i, "rightR"),
            Elem(r + j + 1, "disk", i, "r") >>
         \o BaseQuads(i, r, rightR, j + 1)

RECURSIVE BaseLoop(_)
\* for (i = 0; i < numSlices; i++), base
BaseLoop(i) ==
    IF i >= numSlices THEN <<>>
    ELSE LET r == i * numRings + 1
             rightR == CRem(i + 1, numSlices) * numRings + 1
         IN  << Elem(0, "disk", i, "center"),
                Elem(rightR, "disk", i, "rightR"),
                Elem(r, "disk", i, "r") >>
             \o BaseQuads(i, r, rightR, 0) \o BaseLoop(i + 1)

RECURSIVE SideQuads(_, _, _, _)
\* for (j = 0; j < numStacks-1; j++)
SideQuads(i, r, rightR, j) ==
    IF j >= numStacks - 1 THEN <<>>
    ELSE << Elem(rightR + j, "side", i, "rightR"),
            Elem(r + j + 1, "side", i, "r"),
            Elem(r + j, "side", i, "r"),
            Elem(rightR + j, "side", i, "rightR"),
            Elem(rightR + j + 1, "side", i, "rightR"),
            Elem(r + j + 1, "side", i, "r") >>
         \o SideQuads(i, r, rightR, j + 1)

\* Variants: the right-hand slice always wraps around / never does.
SideII_mod(i, calcTexCoords) == CRem(i + 1, numSlices)
SideII_inc(i, calcTexCoords) == i + 1
SideII(i, calcTexCoords) ==
    IF calcTexCoords THEN i + 1 ELSE CRem(i + 1, numSlices)

RECURSIVE SideLoop(_, _)
\* for (i = 0; i < numSlices; i++), side
SideLoop(i, calcTexCoords) ==
    IF i >= numSlices THEN <<>>
    ELSE LET r == i * (numStacks + 1) + GetNumVerticesDisk
             ii == SideII(i, calcTexCoords)
             rightR == ii * (numStacks + 1) + GetNumVerticesDisk
             j == IF numStacks - 1 > 0 THEN numStacks - 1 ELSE 0
         IN  SideQuads(i, r, rightR, 0)
             \o << Elem(rightR + j, "side", i, "rightR"),
                   Elem(r + j + 1, "side", i, "r"),
                   Elem(r + j, "side", i, "r") >>
             \o SideLoop(i + 1, calcTexCoords)

\* The element writes of CalcVboAndEbo, in order, from EBOdataBuffer[0] on.
CalcEbo(args) == BaseLoop(0) \o SideLoop(0, args.vertTexCoordsOffset >= 0)

PosOffsets == {0}
NormalOffsets == {-1, 3}
TexCoordsOffsets == {-1, 6}
Strides == {8}

CalcVboAndEbo(vertPosOffset, vertNormalOffset, vertTexCoordsOffset, stride, ub) ==
    LET args == [vertPosOffset |-> vertPosOffset,
                 vertNormalOffset |-> vertNormalOffset,
                 vertTexCoordsOffset |-> vertTexCoordsOffset,
                 stride |-> stride]
        undefined == numSlices = 0 /\ vertTexCoordsOffset >= 0
    IN  /\ fillStatus # "trapped"
        /\ vertPosOffset >= 0 /\ stride > 0
        /\ fillArgs' = args
        /\ IF undefined /\ ub = "trap"
           THEN /\ vbo' = <<SetBaseVert(0, 0, 0, args)>>
                /\ ebo' = <<>>
                /\ fillStatus' = "trapped"
           ELSE /\ vbo' = CalcVbo(args, ub)
                /\ ebo' = CalcEbo(args)
                /\ fillStatus' = IF undefined THEN "undefined" ELSE "done"
        /\ lastOp' = "CalcVboAndEbo"
        /\ UNCHANGED objVars

InitFill == \E slices \in ResValues, stacks \in ResValues, rings \in ResValues :
                Constructor(slices, stacks, rings)

NextFill ==
    \E vertPosOffset \in PosOffsets, vertNormalOffset \in NormalOffsets,
       vertTexCoordsOffset \in TexCoordsOffsets, stride \in Strides,
       ub \in UBOutcomes :
          CalcVboAndEbo(vertPosOffset, vertNormalOffset, vertTexCoordsOffset,
                        stride, ub)

SpecFill == InitFill /\ [][NextFill]_vars

(* ============================ claims ================================== *)

Resolution == <<numSlices, numStacks, numRings>>

\* The ranges that Remesh clamps into.
ValidRes ==
    /\ numSlices \in MinSlices..MaxCount
    /\ numStacks \in MinStacks..MaxCount
    /\ numRings \in MinRings..MaxCount

\* CalcVboAndEbo has run to its end on the current resolution.
Filled == fillStatus = "done"
WithTexCoords == fillArgs.vertTexCoordsOffset >= 0

\* Vertex count of the layout in use.
VertexCount ==
    IF WithTexCoords THEN GetNumVerticesTexCoords ELSE GetNumVerticesNoTexCoords

WrittenRecs == {vbo[k].rec : k \in DOMAIN vbo}

\* C1: after construction with any integers and any Remesh calls, numSlices
\* is in [3,255], numStacks in [1,255] and numRings in [1,255].
C1_ResolutionClamped == ValidRes

\* C2: for a resolution in the valid ranges, the vertex records that
\* CalcVboAndEbo writes are exactly the records 0 .. N-1, each written once,
\* N being the vertex count of the layout in use.
C2_VertexRecordsExact ==
    (Filled /\ ValidRes) =>
        /\ WrittenRecs = 0..(VertexCount - 1)
        /\ Len(vbo) = VertexCount

C2_Witness ==
    /\ Filled /\ ValidRes /\ WithTexCoords
    /\ numStacks >= 2 /\ numRings >= 2
    /\ Len(vbo) = VertexCount

\* C3: for a resolution in the valid ranges and both texcoord settings,
\* exactly GetNumElements() elements are written; the first
\* GetNumElementsDisk() are the disk region and index disk vertices only,
\* the rest are the side region and index side vertices only.
C3_ElementsExact ==
    (Filled /\ ValidRes) =>
        /\ Len(ebo) = GetNumElements
        /\ \A k \in DOMAIN ebo :
              IF k <= GetNumElementsDisk
              THEN ebo[k].part = "disk" /\ ebo[k].v \in 0..(GetNumVerticesDisk - 1)
              ELSE ebo[k].part = "side" /\ ebo[k].v >= GetNumVerticesDisk

C3_Witness ==
    /\ Filled /\ ValidRes /\ ~WithTexCoords
    /\ numRings >= 2 /\ numStacks >= 2
    /\ Len(ebo) = GetNumElementsDisk + GetNumElementsSide
    /\ ebo[GetNumElementsDisk + 1].part = "side"

\* C4: for a resolution in the valid ranges and both texcoord settings,
\* the elements come in triangles of three pairwise distinct vertex
\* indices, each in [0, N).
C4_TrianglesDistinctInRange ==
    (Filled /\ ValidRes) =>
        /\ Len(ebo) % 3 = 0
        /\ \A t \in 0..((Len(ebo) \div 3) - 1) :
              LET a == ebo[3 * t + 1].v
                  b == ebo[3 * t + 2].v
                  c == ebo[3 * t + 3].v
              IN  /\ a # b /\ b # c /\ a # c
                  /\ {a, b, c} \subseteq 0..(VertexCount - 1)

C4_Witness ==
    /\ Filled /\ ValidRes /\ ~WithTexCoords
    /\ numSlices = MinSlices /\ numStacks >= 2
    /\ \E k \in DOMAIN ebo :
          /\ ebo[k].part = "side" /\ ebo[k].i = numSlices - 1
          /\ ebo[k].col = "rightR" /\ ebo[k].v = GetNumVerticesDisk

\* C5: Remesh(s, k, r) whose clamped arguments equal the current triple
\* leaves the triple and the VboEboLoaded flag as they were.
C5_RemeshClampedEqualIsNoOp ==
    [][\A s \in ArgValues, k \in ArgValues, r \in ArgValues :
          ( /\ Remesh(s, k, r)
            /\ <<ClampRange(s, MinSlices, MaxCount),
                 ClampRange(k, MinStacks, MaxCount),
                 ClampRange(r, MinRings, MaxCount)>> = Resolution )
          => (Resolution' = Resolution /\ VboEboLoaded' = VboEboLoaded)]_vars

\* C6: after Remesh(s,k,r); InitializeAttribLocations; Remesh(s,k,r) with
\* the same arguments, in range or not, VboEboLoaded is true.
C6_SameRemeshKeepsLoaded == (track.ph = 3) => VboEboLoaded

\* The calls of one render operation: a draw comes last, and a reload
\* comes before it.
IsDraw(c) == c.fn \in {"GlGeomBase::Render", "RenderEBO"}

ReloadBeforeDraw(cs) ==
    /\ Len(cs) > 0 /\ IsDraw(cs[Len(cs)])
    /\ \E a \in 1..(Len(cs) - 1) : cs[a].fn = "ReInitializeAttribLocations"

\* C7: a Remesh that changes the triple leaves VboEboLoaded false, and a
\* Render, RenderBase or RenderSide that starts with the flag false runs
\* the reload before it issues its draw.
C7_ReloadBeforeDraw ==
    [][ /\ (lastOp' = "Remesh" /\ Resolution' # Resolution) => ~VboEboLoaded'
        /\ (~VboEboLoaded /\ (Render \/ RenderBase \/ RenderSide))
              => ReloadBeforeDraw(calls') ]_vars

C7_Witness ==
    /\ lastOp \in {"Render", "RenderBase", "RenderSide"}
    /\ ReloadBeforeDraw(calls)
    /\ ValidRes /\ numStacks > MinStacks

\* The elements offset .. offset+count-1 that a draw call covers.
ElemRange(c) == c.offset..(c.offset + c.count - 1)

\* C8: for every resolution RenderBase draws GetNumElementsDisk() elements
\* from offset 0 and RenderSide draws GetNumElementsSide() elements from
\* offset GetNumElementsDisk(); the two ranges are disjoint, the disk range
\* comes first and their union is [0, GetNumElements()).
C8_RenderRangesPartition ==
    /\ lastOp = "RenderBase" =>
          calls[Len(calls)] = BaseCall("RenderEBO", GetNumElementsDisk, 0)
    /\ lastOp = "RenderSide" =>
          calls[Len(calls)] =
              BaseCall("RenderEBO", GetNumElementsSide, GetNumElementsDisk)
    /\ lastOp \in {"RenderBase", "RenderSide"} =>
          LET disk == ElemRange(RenderBaseDraw)
              side == ElemRange(RenderSideDraw)
          IN  /\ disk \cap side = {}
              /\ RenderBaseDraw.offset + RenderBaseDraw.count
                    <= RenderSideDraw.offset
              /\ disk \cup side = 0..(GetNumElements - 1)

\* The side vertex writes of slice index i at stack j.
SideWrites(i, j) ==
    {k \in DOMAIN vbo : vbo[k].part = "side" /\ vbo[k].i = i /\ vbo[k].j = j}

\* The records of the side column of slice index i.
SideColumnRecs(i) ==
    {vbo[k].rec : k \in {n \in DOMAIN vbo : vbo[n].part = "side" /\ vbo[n].i = i}}

\* C9: with texcoords, on a mesh of a valid resolution, for every stack j
\* the side vertices of slice 0 and of slice numSlices are two distinct
\* records with the same position and texcoord s = 0 and s = 1; the side
\* triangles of the last slice take their right-hand corners from the
\* slice-numSlices records and not from the slice-0 records.
C9_SeamDuplicated ==
    (Filled /\ ValidRes /\ WithTexCoords) =>
        /\ \A j \in 0..(numStacks - 1) :
              /\ Cardinality(SideWrites(0, j)) = 1
              /\ Cardinality(SideWrites(numSlices, j)) = 1
              /\ \A a \in SideWrites(0, j), b \in SideWrites(numSlices, j) :
                    /\ vbo[a].rec # vbo[b].rec
                    /\ vbo[a].pos = vbo[b].pos
                    /\ vbo[a].tex.kind = "st" /\ vbo[b].tex.kind = "st"
                    /\ vbo[a].tex.sNum = 0
                    /\ vbo[b].tex.sNum = vbo[b].tex.sDen
        /\ \A e \in DOMAIN ebo :
              (ebo[e].part = "side" /\ ebo[e].i = numSlices - 1
                  /\ ebo[e].col = "rightR")
              => /\ ebo[e].v \in SideColumnRecs(numSlices)
                 /\ ebo[e].v \notin SideColumnRecs(0)

C9_Witness ==
    /\ Filled /\ ValidRes /\ WithTexCoords /\ numStacks >= 2
    /\ \E a \in SideWrites(0, 1), b \in SideWrites(numSlices, 1) :
          vbo[a].pos = vbo[b].pos /\ vbo[a].rec < vbo[b].rec
    /\ \E e \in DOMAIN ebo :
          /\ ebo[e].part = "side" /\ ebo[e].i = numSlices - 1
          /\ ebo[e].v \in SideColumnRecs(numSlices)

\* C10: for a resolution in the valid ranges and both texcoord settings,
\* every vertex record written is indexed by at least one element.
C10_NoOrphanVertex ==
    (Filled /\ ValidRes) =>
        \A k \in DOMAIN vbo : \E e \in DOMAIN ebo : ebo[e].v = vbo[k].rec

C10_Witness ==
    /\ Filled /\ ValidRes /\ WithTexCoords /\ numRings >= 2
    /\ \E k \in DOMAIN vbo, e \in DOMAIN ebo :
          /\ vbo[k].part = "apex" /\ vbo[k].i = numSlices - 1
          /\ ebo[e].v = vbo[k].rec

====
